---- MODULE Spec2Model ----
(***************************************************************************)
(* Model of src/utils/apiResponse.ts: the ApiResponse envelope, its two    *)
(* constructors and its two type guards.                                   *)
(*                                                                         *)
(* JavaScript values are tagged records ([t |-> "undefined"], ...), an     *)
(* object is a function from its own keys to values, so `'k' in o` is      *)
(* "k" \in DOMAIN o and an absent key differs from a key holding           *)
(* undefined.  Objects live in a heap (a sequence; an address is an        *)
(* index); an object literal allocates a fresh address.                    *)
(***************************************************************************)
EXTENDS Integers, Sequences, FiniteSets, TLC

MaxCalls == 2   \* constructor calls per behaviour
MaxTime  == 1   \* Date.now() ranges over 0..MaxTime

VARIABLES clock, heap, returned, probe, stepped

vars == <<clock, heap, returned, probe, stepped>>

----------------------------------------------------------------------------
(* JavaScript values *)

Undefined == [t |-> "undefined"]
Null      == [t |-> "null"]
Answer    == [t |-> "number", v |-> 42]
Retryable == [t |-> "object", v |-> "retryable"]

Payloads == {Undefined, Null, Answer}          \* values of T
Codes    == {"", "E1"}
Messages == {"", "boom"}
Details  == {Undefined, Retryable}             \* values of `unknown`

Times == 0 .. MaxTime

\* error?: { code: string; message: string; details?: unknown }
ErrorRecord == [code : Codes, message : Messages, details : Details]

\* Every object assignable to ApiResponse<T>: success and timestamp are
\* required, data and error are optional keys, and an optional key may be
\* present holding undefined.
ApiResponse ==
  LET ErrorValues == ErrorRecord \cup {Undefined} IN
       [success : BOOLEAN, timestamp : Times]
  \cup [success : BOOLEAN, data : Payloads, timestamp : Times]
  \cup [success : BOOLEAN, error : ErrorValues, timestamp : Times]
  \cup [success : BOOLEAN, data : Payloads, error : ErrorValues, timestamp : Times]

----------------------------------------------------------------------------
(* The functions of apiResponse.ts *)

\* Date.now(): the ambient wall clock
DateNow == clock

\* variant: the payload coalesced with `data ?? null`
createSuccessResponse_Coalesced(data, now) ==
  [success |-> TRUE, data |-> IF data = Undefined THEN Null ELSE data,
   timestamp |-> now]

\* return { success: true, data, timestamp: Date.now() }
createSuccessResponse(data, now) ==
  [success |-> TRUE, data |-> data, timestamp |-> now]

\* variant: the timestamp taken in coarser units than createSuccessResponse's
createErrorResponse_CoarseTime(code, message, details, now) ==
  [success   |-> FALSE,
   error     |-> [code |-> code, message |-> message, details |-> details],
   timestamp |-> now \div 2]

\* variant: the literal also writes `data: undefined`
createErrorResponse_WithData(code, message, details, now) ==
  [success   |-> FALSE,
   data      |-> Undefined,
   error     |-> [code |-> code, message |-> message, details |-> details],
   timestamp |-> now]

\* variant: an empty code replaced with `code || 'UNKNOWN'`
createErrorResponse_DefaultCode(code, message, details, now) ==
  [success   |-> FALSE,
   error     |-> [code |-> IF code = "" THEN "UNKNOWN" ELSE code,
                  message |-> message, details |-> details],
   timestamp |-> now]

\* return { success: false, error: { code, message, details }, timestamp: Date.now() }
createErrorResponse(code, message, details, now) ==
  [success   |-> FALSE,
   error     |-> [code |-> code, message |-> message, details |-> details],
   timestamp |-> now]

\* variant: the optional parameter declared with a default, `details = null`
DetailsParam_DefaultNull(args) ==
  IF "details" \in DOMAIN args /\ args.details # Undefined
    THEN args.details ELSE Null

\* binding of the optional parameter `details?`: an omitted argument is undefined
DetailsParam(args) ==
  IF "details" \in DOMAIN args THEN args.details ELSE Undefined

\* variant: return response.success
isSuccessResponse_FlagOnly(response) ==
  response.success

\* variant: return response.success && response.data !== undefined
isSuccessResponse_DefinedData(response) ==
  response.success /\ "data" \in DOMAIN response /\ response.data # Undefined

\* return response.success && 'data' in response
isSuccessResponse(response) ==
  response.success /\ "data" \in DOMAIN response

\* variant: return 'error' in response
isErrorResponse_KeyOnly(response) ==
  "error" \in DOMAIN response

\* return !response.success && 'error' in response
isErrorResponse(response) ==
  ~response.success /\ "error" \in DOMAIN response

\* variant: one module-level object reused for every result
AllocateShared(h, obj) ==
  IF h = <<>> THEN <<obj>> ELSE [h EXCEPT ![Len(h)] = obj]

\* evaluation of an object literal: a fresh object, at a fresh address
Allocate(h, obj) == Append(h, obj)

----------------------------------------------------------------------------
(* Calls a caller can make *)

SuccessArgs == [data : Payloads]
ErrorArgs   == [code : Codes, message : Messages]
          \cup [code : Codes, message : Messages, details : Details]

NoProbe == [addr |-> 0, seen |-> [op \in {} |-> TRUE]]

\* what the caller has observed of the guards on the object at address a
Observe(a, op, result) ==
  [addr |-> a,
   seen |-> IF probe.addr = a THEN (op :> result) @@ probe.seen
                              ELSE (op :> result)]

Init ==
  /\ clock = 0
  /\ heap = <<>>
  /\ returned = <<>>
  /\ probe = NoProbe
  /\ stepped = FALSE

\* a caller holding any object of the ApiResponse shape (built by hand,
\* parsed, received), before any guard is applied to it
InitAny ==
  /\ clock = 0
  /\ heap \in {<<e>> : e \in ApiResponse}
  /\ returned = <<>>
  /\ probe = NoProbe
  /\ stepped = FALSE

CreateSuccessCall(args) ==
  /\ Len(returned) < MaxCalls
  /\ heap' = Allocate(heap, createSuccessResponse(args.data, DateNow))
  /\ returned' = Append(returned,
       [op |-> "createSuccessResponse", args |-> args, now |-> clock,
        addr |-> Len(heap'), afterBackstep |-> stepped])
  /\ stepped' = FALSE
  /\ UNCHANGED <<clock, probe>>

CreateErrorCall(args) ==
  /\ Len(returned) < MaxCalls
  /\ heap' = Allocate(heap,
       createErrorResponse(args.code, args.message, DetailsParam(args), DateNow))
  /\ returned' = Append(returned,
       [op |-> "createErrorResponse", args |-> args, now |-> clock,
        addr |-> Len(heap'), afterBackstep |-> stepped])
  /\ stepped' = FALSE
  /\ UNCHANGED <<clock, probe>>

IsSuccessCall(a) ==
  /\ a \in DOMAIN heap
  /\ probe' = Observe(a, "isSuccessResponse", isSuccessResponse(heap[a]))
  /\ UNCHANGED <<clock, heap, returned, stepped>>

IsErrorCall(a) ==
  /\ a \in DOMAIN heap
  /\ probe' = Observe(a, "isErrorResponse", isErrorResponse(heap[a]))
  /\ UNCHANGED <<clock, heap, returned, stepped>>

\* the wall clock moves forward as time passes
ClockAdvance ==
  /\ \E t \in Times : t > clock /\ clock' = t
  /\ UNCHANGED <<heap, returned, probe, stepped>>

\* the wall clock is set back (time synchronisation, manual change)
ClockAdjust ==
  /\ \E t \in Times : t < clock /\ clock' = t
  /\ stepped' = TRUE
  /\ UNCHANGED <<heap, returned, probe>>

Next ==
  \/ \E args \in SuccessArgs : CreateSuccessCall(args)
  \/ \E args \in ErrorArgs : CreateErrorCall(args)
  \/ \E a \in DOMAIN heap : IsSuccessCall(a)
  \/ \E a \in DOMAIN heap : IsErrorCall(a)
  \/ ClockAdvance
  \/ ClockAdjust

NextAny ==
  \/ \E a \in DOMAIN heap : IsSuccessCall(a)
  \/ \E a \in DOMAIN heap : IsErrorCall(a)

Spec    == Init /\ [][Next]_vars
SpecAny == InitAny /\ [][NextAny]_vars

----------------------------------------------------------------------------
(* Vocabulary of the properties *)

IsSuccessOp == "isSuccessResponse"
IsErrorOp   == "isErrorResponse"

Seen(op)     == probe.addr \in DOMAIN heap /\ op \in DOMAIN probe.seen
SeenBoth     == Seen(IsSuccessOp) /\ Seen(IsErrorOp)
Probed       == heap[probe.addr]
Calls        == DOMAIN returned
Env(i)       == heap[returned[i].addr]
Built(i, op) == returned[i].op = op
HasKey(e, k) == k \in DOMAIN e
\* a field is populated when its key is present and holds a defined value
Populated(e, k) == HasKey(e, k) /\ e[k] # Undefined
\* the key that goes with the success flag is present
KeyMatchesFlag(e) == IF e.success THEN HasKey(e, "data") ELSE HasKey(e, "error")
\* the clock was not set back between call i and the later call j
NoBackstepBetween(i, j) == \A k \in (i + 1) .. j : ~returned[k].afterBackstep

----------------------------------------------------------------------------
\* C1 (as stated): for every envelope of the ApiResponse shape exactly one
\* of isSuccessResponse and isErrorResponse returns true.
C1_ExactlyOneGuard ==
  SeenBoth => (probe.seen[IsSuccessOp] # probe.seen[IsErrorOp])

\* C1 (amended): the two guards never both return true, and one of them
\* returns true exactly when the key that goes with the success flag is
\* present; an envelope with success = true and no 'data' key, or with
\* success = false and no 'error' key, gets false from both.
C1_AtMostOneGuard ==
  SeenBoth =>
    /\ ~(probe.seen[IsSuccessOp] /\ probe.seen[IsErrorOp])
    /\ (probe.seen[IsSuccessOp] \/ probe.seen[IsErrorOp]) <=> KeyMatchesFlag(Probed)

C1_Witness ==
  /\ SeenBoth
  /\ Probed.success /\ ~HasKey(Probed, "data")
  /\ ~probe.seen[IsSuccessOp] /\ ~probe.seen[IsErrorOp]

\* C2 (as stated): isSuccessResponse(e) is true iff e.success is true,
\* whether or not the 'data' key is present.
C2_SuccessIffFlag ==
  Seen(IsSuccessOp) => (probe.seen[IsSuccessOp] <=> Probed.success)

\* C2 (amended): isSuccessResponse(e) is true iff e.success is true and the
\* 'data' key is present in e.
C2_SuccessIffFlagAndData ==
  Seen(IsSuccessOp) =>
    (probe.seen[IsSuccessOp] <=> (Probed.success /\ HasKey(Probed, "data")))

C2_Witness ==
  /\ Seen(IsSuccessOp)
  /\ Probed.success /\ ~HasKey(Probed, "data")
  /\ ~probe.seen[IsSuccessOp]

\* C3: whenever isErrorResponse(e) returns true, e.error is a defined
\* record carrying code and message.
C3_ErrorPopulated ==
  (Seen(IsErrorOp) /\ probe.seen[IsErrorOp]) =>
    (Populated(Probed, "error") /\ Probed.error \in ErrorRecord)

\* C4: the guards classify every constructor output correctly:
\* isSuccessResponse is true and isErrorResponse false on every result of
\* createSuccessResponse, and the reverse on every result of
\* createErrorResponse.
C4_GuardsClassifyConstructed ==
  \A i \in Calls :
    returned[i].addr = probe.addr =>
      /\ Seen(IsSuccessOp) =>
           (probe.seen[IsSuccessOp] <=> Built(i, "createSuccessResponse"))
      /\ Seen(IsErrorOp) =>
           (probe.seen[IsErrorOp] <=> Built(i, "createErrorResponse"))

C4_Witness ==
  \E i \in Calls :
    /\ Built(i, "createSuccessResponse") /\ returned[i].args.data = Undefined
    /\ returned[i].addr = probe.addr
    /\ SeenBoth
    /\ probe.seen[IsSuccessOp] /\ ~probe.seen[IsErrorOp]

\* C5: createErrorResponse accepts every code, message and details (the
\* empty string included) and returns success = false, error.code = code,
\* error.message = message, error.details = details (undefined when
\* omitted), and no data field.
C5_ErrorEnvelopeShape ==
  \A i \in Calls :
    Built(i, "createErrorResponse") =>
      /\ DOMAIN Env(i) = {"success", "error", "timestamp"}
      /\ Env(i).success = FALSE
      /\ DOMAIN Env(i).error = {"code", "message", "details"}
      /\ Env(i).error.code = returned[i].args.code
      /\ Env(i).error.message = returned[i].args.message
      /\ Env(i).error.details =
           (IF HasKey(returned[i].args, "details")
              THEN returned[i].args.details ELSE Undefined)

C5_Witness ==
  \E i \in Calls :
    /\ Built(i, "createErrorResponse")
    /\ returned[i].args.code = "" /\ returned[i].args.message = ""
    /\ ~HasKey(returned[i].args, "details")
    /\ Env(i).error.details = Undefined

\* C6: createSuccessResponse accepts every payload v and returns
\* success = true, data = v itself, timestamp = the clock value read during
\* the call, and no error field.
C6_SuccessEnvelopeShape ==
  \A i \in Calls :
    Built(i, "createSuccessResponse") =>
      /\ DOMAIN Env(i) = {"success", "data", "timestamp"}
      /\ Env(i).success = TRUE
      /\ Env(i).data = returned[i].args.data
      /\ Env(i).timestamp = returned[i].now

C6_Witness ==
  \E i \in Calls :
    /\ Built(i, "createSuccessResponse")
    /\ returned[i].args.data = Undefined
    /\ returned[i].now > 0
    /\ Env(i).timestamp = returned[i].now

\* C7 (as stated): timestamps of the returned envelopes are non-decreasing
\* in call order, for every behaviour of the clock Date.now() reads.
C7_TimestampsNonDecreasing ==
  \A i, j \in Calls : i < j => Env(i).timestamp <= Env(j).timestamp

\* C7 (amended): timestamps of the returned envelopes are non-decreasing in
\* call order between any two calls between which the clock Date.now()
\* reads was not set back.
C7_NonDecreasingUnlessSetBack ==
  \A i, j \in Calls :
    (i < j /\ NoBackstepBetween(i, j)) => Env(i).timestamp <= Env(j).timestamp

C7_Witness ==
  \E i, j \in Calls :
    /\ i < j /\ NoBackstepBetween(i, j)
    /\ Built(i, "createSuccessResponse") /\ Built(j, "createErrorResponse")
    /\ Env(i).timestamp < Env(j).timestamp

\* C8 (as stated): every constructed envelope has exactly one of data /
\* error populated, consistent with its success flag.
C8_ExactlyOnePopulated ==
  \A i \in Calls :
    /\ Env(i).success => (Populated(Env(i), "data") /\ ~Populated(Env(i), "error"))
    /\ ~Env(i).success => (Populated(Env(i), "error") /\ ~Populated(Env(i), "data"))

\* C8 (amended): every constructed envelope has exactly one of the keys
\* data / error, consistent with its success flag: success = true implies
\* the data key is present and the error key is not, success = false
\* implies the error key is present, holding a defined record, and the data
\* key is not; the data of a success envelope is populated exactly when the
\* payload given was not undefined.
C8_ExactlyOneKey ==
  \A i \in Calls :
    /\ Env(i).success =>
         /\ HasKey(Env(i), "data") /\ ~HasKey(Env(i), "error")
         /\ Populated(Env(i), "data") <=> returned[i].args.data # Undefined
    /\ ~Env(i).success =>
         /\ Populated(Env(i), "error") /\ ~HasKey(Env(i), "data")

C8_Witness ==
  \E i \in Calls :
    /\ Built(i, "createSuccessResponse")
    /\ returned[i].args.data = Undefined
    /\ HasKey(Env(i), "data") /\ ~Populated(Env(i), "data")
    /\ ~HasKey(Env(i), "error")

\* C9 (as stated): every failure envelope produced by createErrorResponse
\* has a non-empty error.code and a non-empty error.message.
C9_CodeMessageNonEmpty ==
  \A i \in Calls :
    ~Env(i).success => (Env(i).error.code # "" /\ Env(i).error.message # "")

\* C9 (amended): every failure envelope produced by createErrorResponse
\* carries the code and message it was given, unvalidated: error.code is
\* non-empty exactly when the code argument was, and error.message is
\* non-empty exactly when the message argument was.
C9_NonEmptyIffGiven ==
  \A i \in Calls :
    Built(i, "createErrorResponse") =>
      /\ ~Env(i).success
      /\ Env(i).error.code # "" <=> returned[i].args.code # ""
      /\ Env(i).error.message # "" <=> returned[i].args.message # ""

C9_Witness ==
  \E i \in Calls :
    /\ Built(i, "createErrorResponse")
    /\ returned[i].args.code = "" /\ returned[i].args.message = "boom"
    /\ Env(i).error.code = "" /\ Env(i).error.message = "boom"

\* C10: an envelope is never changed after it is constructed: no later
\* constructor or guard call alters any field of an envelope that exists.
C10_EnvelopesNeverChange ==
  [][\A a \in DOMAIN heap : a \in DOMAIN heap' /\ heap'[a] = heap[a]]_vars

C10_Witness ==
  /\ Len(returned) >= 2
  /\ returned[1].addr # returned[2].addr
  /\ probe.addr = returned[1].addr
  /\ SeenBoth

====
